---- MODULE Spec2Model ----
(***************************************************************************)
(* A model of custom_precommit_hooks/clean_file_paths.py: the binary       *)
(* detector, the file rewriter (clean_file), the tree walker (clean_files) *)
(* and the entry point (main).                                             *)
(*                                                                         *)
(* Text is a sequence of characters, each character a string.  The bytes   *)
(* of a file are a sequence of the same characters, plus three named       *)
(* bytes: NUL (a zero byte), BAD (a byte that is no valid UTF-8) and the   *)
(* carriage return.  SURR is a lone surrogate code point, which a str can  *)
(* hold (json.load of "\ud800") and UTF-8 cannot encode.                   *)
(***************************************************************************)
EXTENDS Integers, Sequences, FiniteSets, TLC

NL   == "\n"
CR   == "\r"
SP   == " "
NUL  == "NUL"
BAD  == "BAD"
SURR == "SURR"

\* Python's None, for a rule whose options hold no "replacement".
None == <<"None">>

---------------------------------------------------------------------------
(* Characters and the re module's character classes *)

\* \s of the re module, over the characters of the model
WhiteSpace == {SP, NL, CR, "\t"}

IsSpace(c) == c \in WhiteSpace

\* [a-zA-Z0-9] of line 46, over the characters of the model
AlnumChars == {"a", "l", "k", "K", "n", "o", "t", "x", "v", "w", "0", "6"}

IsAlnum(c) == c \in AlnumChars

\* re.IGNORECASE: the upper-case letters of the model and their lower case
LowerOf == [c \in {"K"} |-> "k"]

CaseFold(c) == IF c \in DOMAIN LowerOf THEN LowerOf[c] ELSE c

\* one literal character of re.escape(pattern) against one of the content
CharEq(a, b, case_sensitive) ==
    IF case_sensitive THEN a = b ELSE CaseFold(a) = CaseFold(b)

\* re.escape(pattern) matches the content s at index i
LitAt(s, i, pat, case_sensitive) ==
    /\ i + Len(pat) - 1 <= Len(s)
    /\ \A j \in 1..Len(pat) : CharEq(s[i + j - 1], pat[j], case_sensitive)

\* the index after the greedy run \s* that starts at i
RECURSIVE SkipSpace(_, _)
SkipSpace(s, i) ==
    IF i <= Len(s) /\ IsSpace(s[i]) THEN SkipSpace(s, i + 1) ELSE i

\* the index after the greedy run [^\s]* that starts at i
RECURSIVE NonSpaceEnd(_, _)
NonSpaceEnd(s, i) ==
    IF i <= Len(s) /\ ~IsSpace(s[i]) THEN NonSpaceEnd(s, i + 1) ELSE i

\* the index after the greedy run [^\n]* that starts at i
RECURSIVE LineEnd(_, _)
LineEnd(s, i) ==
    IF i <= Len(s) /\ s[i] # NL THEN LineEnd(s, i + 1) ELSE i

\* the index after the greedy run [^/\s]* that starts at i
RECURSIVE SegEnd(_, _)
SegEnd(s, i) ==
    IF i <= Len(s) /\ s[i] # "/" /\ ~IsSpace(s[i]) THEN SegEnd(s, i + 1) ELSE i

\* the index after the greedy run [^/]* that starts at i
RECURSIVE NoSlashEnd(_, _)
NoSlashEnd(s, i) ==
    IF i <= Len(s) /\ s[i] # "/" THEN NoSlashEnd(s, i + 1) ELSE i

\* the index after the greedy run [a-zA-Z0-9]* that starts at i
RECURSIVE AlnumEnd(_, _)
AlnumEnd(s, i) ==
    IF i <= Len(s) /\ IsAlnum(s[i]) THEN AlnumEnd(s, i + 1) ELSE i

---------------------------------------------------------------------------
(* os.path *)

\* the index of the last "/" of p, 0 when it has none (str.rfind + 1)
LastSlash(p) ==
    LET S == {i \in 1..Len(p) : p[i] = "/"}
    IN IF S = {} THEN 0 ELSE CHOOSE i \in S : \A j \in S : j <= i

os_path_basename(p) == SubSeq(p, LastSlash(p) + 1, Len(p))

\* posixpath.join of two components; a None component raises TypeError,
\* which the callers decide before they join.
os_path_join(a, b) ==
    IF Len(b) > 0 /\ b[1] = "/" THEN b
    ELSE IF Len(a) = 0 \/ a[Len(a)] = "/" THEN a \o b
    ELSE a \o <<"/">> \o b

---------------------------------------------------------------------------
(* The three substitutions of clean_file.  re.sub replaces the leftmost    *)
(* non-overlapping matches, scanning from the left; the patterns of the    *)
(* model are non-empty, so no match is empty.                              *)

\* options.get(key, default)
OptGet(options, key, default) ==
    IF key \in DOMAIN options THEN options[key] ELSE default

\* str(replacement) inside the f-string of replace_value
FormatStr(replacement) ==
    IF replacement = None THEN <<"N", "o", "n", "e">> ELSE replacement

replace_with_filename_keep_dir(full_path, replacement) ==
    os_path_join(replacement, full_path)

replace_with_filename(full_path, replacement) ==
    os_path_join(replacement, os_path_basename(full_path))

replace_value(key, replacement) ==
    key \o <<SP, "=", SP>> \o FormatStr(replacement)

\* the end (the index after the match) of flexible_pattern of line 57 at i
InplaceMatchEnd(s, i, pat) == NonSpaceEnd(s, i + Len(pat))

RECURSIVE InplaceScan(_, _, _, _, _)
InplaceScan(s, i, pat, replacement, cs) ==
    IF i > Len(s) THEN <<>>
    ELSE IF LitAt(s, i, pat, cs)
         THEN LET e == InplaceMatchEnd(s, i, pat)
              IN replace_with_filename(SubSeq(s, i, e - 1), replacement)
                     \o InplaceScan(s, e, pat, replacement, cs)
         ELSE <<s[i]>> \o InplaceScan(s, i + 1, pat, replacement, cs)

\* the end of the assignment_pattern of line 73 at i, 0 when it does not
\* match there: the key, \s*, "=", \s*, [^\n]*
AssignMatchEnd(s, i, pat, cs) ==
    IF ~LitAt(s, i, pat, cs) THEN 0
    ELSE LET j == SkipSpace(s, i + Len(pat))
         IN IF j <= Len(s) /\ s[j] = "="
            THEN LineEnd(s, SkipSpace(s, j + 1))
            ELSE 0

RECURSIVE AssignScan(_, _, _, _, _)
AssignScan(s, i, pat, replacement, cs) ==
    IF i > Len(s) THEN <<>>
    ELSE LET e == AssignMatchEnd(s, i, pat, cs)
         IN IF e # 0
            THEN replace_value(SubSeq(s, i, i + Len(pat) - 1), replacement)
                     \o AssignScan(s, e, pat, replacement, cs)
            ELSE <<s[i]>> \o AssignScan(s, i + 1, pat, replacement, cs)

\* The "all" pattern of line 46: (/[^/\s]+)+/(?P<filename>[^/]+\.[a-zA-Z0-9]+)
\* p is the index of a "/".  The filename part after it: [^/]+ is greedy, so
\* it ends at the last "." of the run of non-"/" characters that has a
\* character before it and a letter or digit after it.  <<0, 0>> when none,
\* else <<the first index of the filename, the index after the match>>.
AllTail(s, p) ==
    LET r == NoSlashEnd(s, p + 1)
        D == {d \in (p + 2)..(r - 2) : s[d] = "." /\ IsAlnum(s[d + 1])}
    IN IF p > Len(s) \/ s[p] # "/" \/ D = {} THEN <<0, 0>>
       ELSE LET d == CHOOSE x \in D : \A y \in D : y <= x
            IN <<p + 1, AlnumEnd(s, d + 1)>>

\* p is the index of a "/" that at least one repetition of (/[^/\s]+) has
\* reached.  The group is greedy: one more repetition is tried first, and the
\* filename part at p only when that fails.
RECURSIVE AllChain(_, _)
AllChain(s, p) ==
    LET q == SegEnd(s, p + 1)
        more == IF q > p + 1 /\ q <= Len(s) /\ s[q] = "/"
                THEN AllChain(s, q) ELSE <<0, 0>>
    IN IF more # <<0, 0>> THEN more ELSE AllTail(s, p)

\* the match of the "all" pattern that starts at i, <<0, 0>> when none
AllMatchAt(s, i) ==
    LET q == SegEnd(s, i + 1)
    IN IF s[i] = "/" /\ q > i + 1 /\ q <= Len(s) /\ s[q] = "/"
       THEN AllChain(s, q) ELSE <<0, 0>>

replace_with_directory(filename, replacement) ==
    os_path_join(replacement, filename)

RECURSIVE AllScan(_, _, _)
AllScan(s, i, replacement) ==
    IF i > Len(s) THEN <<>>
    ELSE LET m == AllMatchAt(s, i)
         IN IF m # <<0, 0>>
            THEN replace_with_directory(SubSeq(s, m[1], m[2] - 1), replacement)
                     \o AllScan(s, m[2], replacement)
            ELSE <<s[i]>> \o AllScan(s, i + 1, replacement)

\* the literal pattern name that selects the "all" case (line 44)
AllName == <<"a", "l", "l">>

\* some match of the rule's expression exists, so re.sub calls the callback
HasMatch(s, pat, inplace, cs) ==
    \E i \in 1..Len(s) :
        IF inplace
        THEN IF pat = AllName THEN AllMatchAt(s, i) # <<0, 0>>
             ELSE LitAt(s, i, pat, cs)
        ELSE AssignMatchEnd(s, i, pat, cs) # 0

\* One turn of the loop of lines 35-82 on the content s: [exc, text].
\* os.path.join(None, filename) raises TypeError when a callback runs.
ApplyRule(s, rule) ==
    LET pat == rule.pattern
        replacement == OptGet(rule.options, "replacement", None)
        inplace == OptGet(rule.options, "inplace", FALSE)
        cs == OptGet(rule.options, "case_sensitive", TRUE)
    IN IF inplace
       THEN IF replacement = None
            THEN [exc |-> HasMatch(s, pat, TRUE, cs), text |-> s]
            ELSE IF pat = AllName
                 THEN [exc |-> FALSE, text |-> AllScan(s, 1, replacement)]
                 ELSE [exc |-> FALSE,
                       text |-> InplaceScan(s, 1, pat, replacement, cs)]
       ELSE [exc |-> FALSE, text |-> AssignScan(s, 1, pat, replacement, cs)]

\* The loop of lines 34-82: the rules in the mapping's order, each on the
\* output of the one before; an exception ends it.
RECURSIVE ApplyRules(_, _, _)
ApplyRules(s, patterns, k) ==
    IF k > Len(patterns) THEN [exc |-> FALSE, text |-> s]
    ELSE LET r == ApplyRule(s, patterns[k])
         IN IF r.exc THEN r ELSE ApplyRules(r.text, patterns, k + 1)

---------------------------------------------------------------------------
(* Files: bytes on disk, the text codec, the binary detector, clean_file *)

Range(s) == {s[i] : i \in 1..Len(s)}

EndsWith(s, suffix) ==
    /\ Len(suffix) <= Len(s)
    /\ SubSeq(s, Len(s) - Len(suffix) + 1, Len(s)) = suffix

StartsWith(s, prefix) ==
    /\ Len(prefix) <= Len(s)
    /\ SubSeq(s, 1, Len(prefix)) = prefix

\* the tuple of suffixes of line 20
SkipSuffixes ==
    { <<"c", "o", "n", "f", "i", "g", ".", "j", "s", "o", "n">>,
      <<".", "p", "r", "e", "-", "c", "o", "m", "m", "i", "t", "-",
        "c", "o", "n", "f", "i", "g", ".", "y", "a", "m", "l">>,
      <<".", "y", "m", "l">> }

\* filepath.endswith((...)) of line 20
IsSkipped(filepath) == \E suffix \in SkipSuffixes : EndsWith(filepath, suffix)

\* A file's mode for this process: "rw", "ro" (open for writing raises
\* PermissionError) or "none" (open for reading raises too).
Modes == {"rw", "ro", "none"}

\* is_binary_file: a zero byte in some block; False when open raises
is_binary_file(bytes, md) ==
    IF md = "none" THEN FALSE ELSE NUL \in Range(bytes)

\* Text mode's universal newlines on reading: "\r\n" and "\r" become "\n"
RECURSIVE TranslateNewlines(_, _)
TranslateNewlines(bytes, i) ==
    IF i > Len(bytes) THEN <<>>
    ELSE IF bytes[i] = CR
         THEN <<NL>> \o TranslateNewlines(bytes,
                  IF i < Len(bytes) /\ bytes[i + 1] = NL THEN i + 2 ELSE i + 1)
         ELSE <<bytes[i]>> \o TranslateNewlines(bytes, i + 1)

\* open(filepath, 'r', encoding='utf-8').read(): [exc, text]
ReadText(bytes, md) ==
    IF md = "none" \/ BAD \in Range(bytes)
    THEN [exc |-> TRUE, text |-> <<>>]
    ELSE [exc |-> FALSE, text |-> TranslateNewlines(bytes, 1)]

\* file.write(cleaned_content) with encoding='utf-8' on POSIX: [exc, bytes].
\* A lone surrogate raises UnicodeEncodeError before a byte is written.
EncodeText(text) ==
    IF SURR \in Range(text)
    THEN [exc |-> TRUE, bytes |-> <<>>]
    ELSE [exc |-> FALSE, bytes |-> text]

ContentChangedAlways(content, cleaned_content) == TRUE

\* the comparison of line 84
ContentChanged(content, cleaned_content) == content # cleaned_content

\* What one call of clean_file does and returns.  io is the number of bytes
\* the operating system takes before the write fails (ENOSPC, EIO), or -1
\* when it takes them all.  The result: ret, the file's bytes afterwards,
\* whether the file was opened for writing, whether an exception was caught
\* (line 94), and the content read and computed (<<>> when not reached).
CallResult(ret, bytes, wopen, exc, content, cleaned) ==
    [ret |-> ret, bytes |-> bytes, wopen |-> wopen, exc |-> exc,
     content |-> content, cleaned |-> cleaned]

clean_file(filepath, patterns, bytes, md, io) ==
    IF IsSkipped(filepath)
    THEN CallResult(FALSE, bytes, FALSE, FALSE, <<>>, <<>>)
    ELSE IF is_binary_file(bytes, md)
    THEN CallResult(FALSE, bytes, FALSE, FALSE, <<>>, <<>>)
    ELSE LET rd == ReadText(bytes, md) IN
    IF rd.exc
    THEN CallResult(FALSE, bytes, FALSE, TRUE, <<>>, <<>>)
    ELSE LET content == rd.text
             res == ApplyRules(content, patterns, 1)
             cleaned_content == res.text
         IN
    IF res.exc
    THEN CallResult(FALSE, bytes, FALSE, TRUE, content, content)
    ELSE IF ~ContentChanged(content, cleaned_content)
    THEN CallResult(FALSE, bytes, FALSE, FALSE, content, cleaned_content)
    ELSE IF md # "rw"
    THEN CallResult(FALSE, bytes, FALSE, TRUE, content, cleaned_content)
    ELSE LET enc == EncodeText(cleaned_content) IN
    IF enc.exc
    THEN CallResult(FALSE, <<>>, TRUE, TRUE, content, cleaned_content)
    ELSE IF io >= 0
    THEN CallResult(FALSE, SubSeq(enc.bytes, 1, io), TRUE, TRUE,
                    content, cleaned_content)
    ELSE CallResult(TRUE, enc.bytes, TRUE, FALSE, content, cleaned_content)

\* the byte counts at which a write of the cleaned content can fail
IoChoices(filepath, patterns, bytes, md) ==
    LET r == clean_file(filepath, patterns, bytes, md, -1)
    IN IF r.ret THEN 0..(Len(r.bytes) - 1) ELSE {}

---------------------------------------------------------------------------
(* The working tree, os.walk, os.path.abspath and glob.glob *)

\* the current directory of the process
Cwd == <<"/", "w">>

\* What os.walk('.') yields, top down: each directory with its files.
Tree ==
    << [root  |-> <<".">>,
        files |-> << <<"a", ".", "t", "x", "t">>,
                     <<"c", "o", "n", "f", "i", "g", ".", "j", "s", "o", "n">> >>],
       [root  |-> <<".", "/", "s">>,
        files |-> << <<"c", ".", "y", "m", "l">>,
                     <<"e", ".", "t", "x", "t">> >>],
       [root  |-> <<".", "/", "s", "2">>,
        files |-> << <<"d", ".", "y", "a", "m", "l">> >>] >>

F_a    == os_path_join(Tree[1].root, Tree[1].files[1])
F_cfg  == os_path_join(Tree[1].root, Tree[1].files[2])
F_yml  == os_path_join(Tree[2].root, Tree[2].files[1])
F_txt  == os_path_join(Tree[2].root, Tree[2].files[2])
F_yaml == os_path_join(Tree[3].root, Tree[3].files[1])

Files == {F_a, F_cfg, F_yml, F_txt, F_yaml}

\* the names glob.glob sees in the current directory
TopEntries ==
    << <<"a", ".", "t", "x", "t">>,
       <<"c", "o", "n", "f", "i", "g", ".", "j", "s", "o", "n">>,
       <<"s">>, <<"s", "2">> >>

\* os.path.abspath of a path of the model: absolute, relative, or "./..."
os_path_abspath(p) ==
    IF Len(p) > 0 /\ p[1] = "/" THEN p
    ELSE IF Len(p) >= 2 /\ p[1] = "." /\ p[2] = "/"
         THEN Cwd \o <<"/">> \o SubSeq(p, 3, Len(p))
         ELSE Cwd \o <<"/">> \o p

\* fnmatch of one path component; "*" stands for any run of characters
RECURSIVE FnMatch(_, _, _, _)
FnMatch(pat, i, name, j) ==
    IF i > Len(pat) THEN j > Len(name)
    ELSE IF pat[i] = "*"
         THEN \E k \in j..(Len(name) + 1) : FnMatch(pat, i + 1, name, k)
         ELSE /\ j <= Len(name)
              /\ pat[i] = name[j]
              /\ FnMatch(pat, i + 1, name, j + 1)

\* glob.glob(dir_pattern) for a pattern of one component
glob(dir_pattern) ==
    SelectSeq(TopEntries, LAMBDA n : FnMatch(dir_pattern, 1, n, 1))

\* the loop of lines 141-143
RECURSIVE ExpandDirs(_, _)
ExpandDirs(include_dirs, k) ==
    IF k > Len(include_dirs) THEN <<>>
    ELSE glob(include_dirs[k]) \o ExpandDirs(include_dirs, k + 1)

IncludedAlways(filepath, include_dirs) == TRUE

\* the test of line 105
Included(filepath, include_dirs) ==
    \E k \in 1..Len(include_dirs) :
        StartsWith(os_path_abspath(filepath), os_path_abspath(include_dirs[k]))

\* every os.path.join(root, file) of the walk, in its order
RECURSIVE WalkFiles(_, _)
WalkFiles(tree, k) ==
    IF k > Len(tree) THEN <<>>
    ELSE [i \in 1..Len(tree[k].files) |->
              os_path_join(tree[k].root, tree[k].files[i])]
         \o WalkFiles(tree, k + 1)

\* the tree as the walk finds it: the files that exist
LiveTree(tree, exists) ==
    [k \in 1..Len(tree) |->
        [root  |-> tree[k].root,
         files |-> SelectSeq(tree[k].files,
                       LAMBDA n : exists[os_path_join(tree[k].root, n)])]]

CandidateFilesFiltered(tree, include_dirs, enforce_all) ==
    IF include_dirs # <<>>
    THEN SelectSeq(WalkFiles(tree, 1), LAMBDA f : Included(f, include_dirs))
    ELSE WalkFiles(tree, 1)

\* all_files of lines 99-111
CandidateFiles(tree, include_dirs, enforce_all) ==
    IF enforce_all
    THEN IF include_dirs # <<>>
         THEN SelectSeq(WalkFiles(tree, 1), LAMBDA f : Included(f, include_dirs))
         ELSE WalkFiles(tree, 1)
    ELSE WalkFiles(tree, 1)

StatusOfNone(modified_files) == 0

\* the return of lines 119-122
StatusOf(modified_files) == IF modified_files # <<>> THEN 1 ELSE 0

---------------------------------------------------------------------------
(* Bounds and inputs *)

\* the longest content the rewriter is given exhaustively
MaxLen == 4
\* the calls of clean_file on one file that the rewriter's runs make
MaxCalls == 2
\* the files another process may delete during a run of the walker
MaxDeletes == 1
\* the writes the operating system may fail during a run of the walker
MaxIoErrors == 1

Str_k   == <<"k">>
Str_v   == <<"v">>
Str_sk  == <<"/", "k">>
Str_sn  == <<"/", "n">>
Str_snk == <<"/", "n", "/", "k">>

Rule(pattern, options) == [pattern |-> pattern, options |-> options]

\* {"k": {"replacement": "v"}}: inplace defaults to false
AssignRule == Rule(Str_k, [replacement |-> Str_v])
\* {"k": {"replacement": "v", "inplace": false, "case_sensitive": false}}
AssignRuleNoCase ==
    Rule(Str_k, [replacement |-> Str_v, inplace |-> FALSE, case_sensitive |-> FALSE])
\* {"k": {"replacement": "\ud800"}}
AssignRuleSurrogate == Rule(Str_k, [replacement |-> <<SURR>>])
\* {"/k": {"replacement": "/n", "inplace": true}}
InplaceRule == Rule(Str_sk, [replacement |-> Str_sn, inplace |-> TRUE])
\* {"/k": {"replacement": "/n/k", "inplace": true}}
InplaceRuleNested == Rule(Str_sk, [replacement |-> Str_snk, inplace |-> TRUE])
\* {"k": {"replacement": "/n/", "inplace": true, "case_sensitive": false}}
InplaceRuleNoCase ==
    Rule(Str_k, [replacement |-> <<"/", "n", "/">>, inplace |-> TRUE,
                 case_sensitive |-> FALSE])
\* {"/k": {"inplace": true}}: no replacement
InplaceRuleNoReplacement == Rule(Str_sk, [inplace |-> TRUE])
\* {"all": {"replacement": "/n", "inplace": true}}
AllRule == Rule(AllName, [replacement |-> Str_sn, inplace |-> TRUE])

\* the rule sets of the rewriter's runs
RewriterRuleSets ==
    { <<AssignRule>>, <<AssignRuleNoCase>>, <<InplaceRule>>,
      <<InplaceRuleNested>>, <<InplaceRuleNoCase>>,
      <<InplaceRuleNoReplacement>>, <<AllRule>>,
      <<InplaceRule, AssignRule>>, <<AssignRule, InplaceRule>> }

\* the rule sets of the walker's runs
WalkerRuleSets ==
    { <<AssignRule>>, <<InplaceRule>>, <<AssignRuleSurrogate>>,
      <<InplaceRuleNoReplacement>> }

\* the characters of the contents enumerated exhaustively
Sigma == {"/", "k", "=", SP, NL}

Strings(n) == UNION {[1..m -> Sigma] : m \in 0..n}

\* longer contents, and contents with the other characters
Samples ==
    { <<"K", SP, "=", "1">>,
      <<"k", "=", "1", CR, NL, "x", CR, NL>>,
      <<"a", "l", "l">>,
      <<"a", "l", "l", "/", "x", "/", "k", ".", "t">>,
      <<"/", "a", "/", "l", ".", "a", SP, "x">>,
      <<"/", "a", "/", "x", ".", "k", "/", "w">>,
      <<"w", "=", "/", "k", "/", "o", "/", "a", ".", "l">>,
      <<"t", "k", SP, "=", SP, "6", "0", NL, "x", "/", "k", "/", "K">>,
      <<"k", SP, "=", SP, "v">>,
      <<"k", "=", NUL>>,
      <<"k", "=", BAD>> }

RewriterContents == Strings(MaxLen) \cup Samples

\* a content both rules of the walker's runs match, and one none matches
Hit  == <<"k", "=", "/", "k">>
Miss == <<"x">>

\* the contents each file of the tree may start with
ContentChoices ==
    (F_a    :> {Hit, Hit \o <<NUL>>, Hit \o <<BAD>>}) @@
    (F_cfg  :> {Hit}) @@
    (F_yml  :> {Hit}) @@
    (F_txt  :> {Hit, Miss}) @@
    (F_yaml :> {Hit})

\* the modes each file of the tree may have
ModeChoices ==
    (F_a :> {"rw"}) @@ (F_cfg :> {"rw"}) @@ (F_yml :> {"rw"}) @@
    (F_txt :> Modes) @@ (F_yaml :> {"rw"})

\* the "directories" lists of the configuration documents
DirectoryLists ==
    { <<>>, << <<"s">> >>, << <<"s", "*">> >>, << <<"z", "z">> >> }

---------------------------------------------------------------------------
(* State *)

VARIABLES
    disk,            \* the bytes of each file
    mode,            \* the mode of each file
    exists,          \* whether each file exists
    args,            \* argparse's namespace: json_config (given), enforce_all
    cfgfile,         \* the configuration file: exists, valid (JSON), doc
    pc,              \* where the process is
    patterns,        \* the rule set in use
    include_dirs,    \* main's include_dirs
    all_files,       \* clean_files' all_files
    idx,             \* the index of the loop of line 114 in all_files
    modified_files,  \* clean_files' modified_files
    result,          \* how main ended: kind (returned, raised) and exit code
    diag,            \* the diagnostic printed: none, message, traceback
    calls,           \* history: every call of clean_file and what it did
    disk0,           \* history: the bytes of each file at the start
    deletes,         \* the deletions so far
    ioerrs           \* the failed writes so far

vars == <<disk, mode, exists, args, cfgfile, pc, patterns, include_dirs,
          all_files, idx, modified_files, result, diag, calls, disk0,
          deletes, ioerrs>>

NoResult == [kind |-> "running", code |-> 0]

\* the configuration documents that load
GoodDocs ==
    {[patterns |-> ps, directories |-> ds] :
        ps \in WalkerRuleSets, ds \in DirectoryLists}

\* a document without "patterns", and one without "directories"
BadDocs == {[directories |-> << <<"s">> >>], [patterns |-> <<AssignRule>>]}

NoDoc == [x \in {} |-> 0]

ConfigFiles ==
    {[exists |-> TRUE, valid |-> TRUE, doc |-> d] : d \in GoodDocs \cup BadDocs}
    \cup {[exists |-> FALSE, valid |-> FALSE, doc |-> NoDoc],
          [exists |-> TRUE, valid |-> FALSE, doc |-> NoDoc]}

Init ==
    /\ disk \in {d \in [Files -> UNION {ContentChoices[f] : f \in Files}] :
                    \A f \in Files : d[f] \in ContentChoices[f]}
    /\ mode \in {m \in [Files -> Modes] : \A f \in Files : m[f] \in ModeChoices[f]}
    /\ exists = [f \in Files |-> TRUE]
    /\ args \in [json_config : BOOLEAN, enforce_all : BOOLEAN]
    /\ cfgfile \in ConfigFiles
    /\ (~args.json_config =>
            cfgfile = [exists |-> FALSE, valid |-> FALSE, doc |-> NoDoc])
    /\ pc = "start"
    /\ patterns = <<>>
    /\ include_dirs = <<>>
    /\ all_files = <<>>
    /\ idx = 1
    /\ modified_files = <<>>
    /\ result = NoResult
    /\ diag = "none"
    /\ calls = <<>>
    /\ disk0 = disk
    /\ deletes = 0
    /\ ioerrs = 0

---------------------------------------------------------------------------
(* main *)

LoadConfigLenient(a, c) ==
    IF ~a.json_config THEN [kind |-> "return"]
    ELSE [kind |-> "ok",
          patterns |-> OptGet(c.doc, "patterns", <<AssignRule>>),
          include_dirs |-> OptGet(c.doc, "directories", <<>>)]

\* lines 130-137: what loading the configuration comes to
LoadConfig(a, c) ==
    IF ~a.json_config THEN [kind |-> "return"]
    ELSE IF ~c.exists THEN [kind |-> "raise", error |-> "FileNotFoundError"]
    ELSE IF ~c.valid THEN [kind |-> "raise", error |-> "JSONDecodeError"]
    ELSE IF "patterns" \notin DOMAIN c.doc
         THEN [kind |-> "raise", error |-> "KeyError"]
    ELSE IF "directories" \notin DOMAIN c.doc
         THEN [kind |-> "raise", error |-> "KeyError"]
    ELSE [kind |-> "ok", patterns |-> c.doc.patterns,
          include_dirs |-> c.doc.directories]

\* lines 135-137: no --json-config; main prints and returns 1
MainNoConfig ==
    /\ pc = "start"
    /\ LoadConfig(args, cfgfile).kind = "return"
    /\ diag' = "message"
    /\ result' = [kind |-> "returned", code |-> 1]
    /\ pc' = "done"
    /\ UNCHANGED <<disk, mode, exists, args, cfgfile, patterns, include_dirs,
                   all_files, idx, modified_files, calls, disk0, deletes, ioerrs>>

\* lines 131-134 raise; nothing catches, so the interpreter prints the
\* traceback and the process exits with status 1
MainConfigError ==
    /\ pc = "start"
    /\ LoadConfig(args, cfgfile).kind = "raise"
    /\ diag' = "traceback"
    /\ result' = [kind |-> "raised", code |-> 1]
    /\ pc' = "done"
    /\ UNCHANGED <<disk, mode, exists, args, cfgfile, patterns, include_dirs,
                   all_files, idx, modified_files, calls, disk0, deletes, ioerrs>>

\* lines 130-134
MainLoadConfig ==
    /\ pc = "start"
    /\ LET c == LoadConfig(args, cfgfile)
       IN /\ c.kind = "ok"
          /\ patterns' = c.patterns
          /\ include_dirs' = c.include_dirs
    /\ pc' = "expand"
    /\ UNCHANGED <<disk, mode, exists, args, cfgfile, all_files, idx,
                   modified_files, result, diag, calls, disk0, deletes, ioerrs>>

\* lines 139-144
MainExpandDirs ==
    /\ pc = "expand"
    /\ include_dirs' = IF include_dirs # <<>>
                       THEN ExpandDirs(include_dirs, 1) ELSE include_dirs
    /\ pc' = "walk"
    /\ UNCHANGED <<disk, mode, exists, args, cfgfile, patterns, all_files, idx,
                   modified_files, result, diag, calls, disk0, deletes, ioerrs>>

---------------------------------------------------------------------------
(* clean_files *)

\* lines 99-113
Walk ==
    /\ pc = "walk"
    /\ all_files' = CandidateFiles(LiveTree(Tree, exists), include_dirs,
                                   args.enforce_all)
    /\ modified_files' = <<>>
    /\ idx' = 1
    /\ pc' = "loop"
    /\ UNCHANGED <<disk, mode, exists, args, cfgfile, patterns, include_dirs,
                   result, diag, calls, disk0, deletes, ioerrs>>

\* the record of one call of clean_file
CallRecord(filepath, before, r) ==
    [file |-> filepath, before |-> before, after |-> r.bytes, ret |-> r.ret,
     wopen |-> r.wopen, exc |-> r.exc, content |-> r.content,
     cleaned |-> r.cleaned]

\* lines 114-117 for a file that exists
ProcessFile ==
    /\ pc = "loop"
    /\ idx <= Len(all_files)
    /\ LET filepath == all_files[idx] IN
       /\ exists[filepath]
       /\ \E io \in {-1} \cup
                 (IF ioerrs < MaxIoErrors
                  THEN IoChoices(filepath, patterns, disk[filepath], mode[filepath])
                  ELSE {}) :
            LET r == clean_file(filepath, patterns, disk[filepath],
                                mode[filepath], io)
            IN /\ disk' = [disk EXCEPT ![filepath] = r.bytes]
               /\ calls' = Append(calls, CallRecord(filepath, disk[filepath], r))
               /\ modified_files' = IF r.ret THEN Append(modified_files, filepath)
                                    ELSE modified_files
               /\ ioerrs' = IF io >= 0 THEN ioerrs + 1 ELSE ioerrs
    /\ idx' = idx + 1
    /\ UNCHANGED <<mode, exists, args, cfgfile, pc, patterns, include_dirs,
                   all_files, result, diag, disk0, deletes>>

\* line 115 for a file that is gone
SkipMissing ==
    /\ pc = "loop"
    /\ idx <= Len(all_files)
    /\ ~exists[all_files[idx]]
    /\ idx' = idx + 1
    /\ UNCHANGED <<disk, mode, exists, args, cfgfile, pc, patterns, include_dirs,
                   all_files, modified_files, result, diag, calls, disk0,
                   deletes, ioerrs>>

\* lines 119-122, and main's return of line 146 as the exit code (line 149)
Return ==
    /\ pc = "loop"
    /\ idx > Len(all_files)
    /\ result' = [kind |-> "returned", code |-> StatusOf(modified_files)]
    /\ pc' = "done"
    /\ UNCHANGED <<disk, mode, exists, args, cfgfile, patterns, include_dirs,
                   all_files, idx, modified_files, diag, calls, disk0, deletes,
                   ioerrs>>

\* another process deletes a file before the walk lists it, or after that
\* and before the loop reaches it
EnvDelete ==
    /\ pc \in {"walk", "loop"}
    /\ deletes < MaxDeletes
    /\ \E f \in Files :
        /\ exists[f]
        /\ pc = "loop" => \E k \in idx..Len(all_files) : all_files[k] = f
        /\ exists' = [exists EXCEPT ![f] = FALSE]
    /\ deletes' = deletes + 1
    /\ UNCHANGED <<disk, mode, args, cfgfile, pc, patterns, include_dirs,
                   all_files, idx, modified_files, result, diag, calls, disk0,
                   ioerrs>>

Next ==
    \/ MainNoConfig
    \/ MainConfigError
    \/ MainLoadConfig
    \/ MainExpandDirs
    \/ Walk
    \/ ProcessFile
    \/ SkipMissing
    \/ Return
    \/ EnvDelete

Spec == Init /\ [][Next]_vars

---------------------------------------------------------------------------
(* The rewriter alone: clean_file called again and again on one file *)

InitRewriter ==
    /\ disk \in {[f \in Files |-> IF f = F_a THEN c ELSE <<>>] :
                    c \in RewriterContents}
    /\ mode = [f \in Files |-> "rw"]
    /\ exists = [f \in Files |-> TRUE]
    /\ args = [json_config |-> TRUE, enforce_all |-> FALSE]
    /\ cfgfile = [exists |-> FALSE, valid |-> FALSE, doc |-> NoDoc]
    /\ pc = "rewriter"
    /\ patterns \in RewriterRuleSets
    /\ include_dirs = <<>>
    /\ all_files = <<F_a>>
    /\ idx = 1
    /\ modified_files = <<>>
    /\ result = NoResult
    /\ diag = "none"
    /\ calls = <<>>
    /\ disk0 = disk
    /\ deletes = 0
    /\ ioerrs = 0

\* one call clean_file(filepath, patterns), lines 18-96
Rewrite ==
    /\ pc = "rewriter"
    /\ Len(calls) < MaxCalls
    /\ LET filepath == all_files[idx]
           r == clean_file(filepath, patterns, disk[filepath], mode[filepath], -1)
       IN /\ disk' = [disk EXCEPT ![filepath] = r.bytes]
          /\ calls' = Append(calls, CallRecord(filepath, disk[filepath], r))
    /\ UNCHANGED <<mode, exists, args, cfgfile, pc, patterns, include_dirs,
                   all_files, idx, modified_files, result, diag, disk0,
                   deletes, ioerrs>>

NextRewriter == Rewrite

SpecRewriter == InitRewriter /\ [][NextRewriter]_vars

---------------------------------------------------------------------------
(* Properties *)

\* the configuration errors: no path given, no file, invalid JSON, a
\* required key absent
ConfigBroken ==
    \/ ~args.json_config
    \/ ~cfgfile.exists
    \/ ~cfgfile.valid
    \/ "patterns" \notin DOMAIN cfgfile.doc
    \/ "directories" \notin DOMAIN cfgfile.doc

CallsOn(f) == {i \in 1..Len(calls) : calls[i].file = f}

\* C1: once clean_files has returned, the status is 1 if and only if some
\* call of clean_file returned true, a call that returned true opened the
\* file for writing and left the cleaned content in it, and the status is
\* the exit code of the process.
C1_StatusIffModified ==
    (pc = "done" /\ ~ConfigBroken) =>
        /\ result.kind = "returned"
        /\ result.code \in {0, 1}
        /\ result.code = 1 <=> \E i \in 1..Len(calls) : calls[i].ret
        /\ \A i \in 1..Len(calls) :
               calls[i].ret => /\ calls[i].wopen
                               /\ calls[i].after = calls[i].cleaned
                               /\ calls[i].cleaned # calls[i].content

\* a finished run that rewrote one file and left another as it was
C1_Witness ==
    /\ pc = "done"
    /\ result = [kind |-> "returned", code |-> 1]
    /\ \E i, j \in 1..Len(calls) :
           /\ calls[i].ret /\ calls[i].after # calls[i].before
           /\ ~calls[j].ret /\ calls[j].after = calls[j].before

\* C2: a file named config.json, or whose name ends in .yml or .yaml, is
\* never modified: clean_file returns false and the bytes stay as they were.
C2_ExcludedNeverModified ==
    \A i \in 1..Len(calls) :
        (\/ os_path_basename(calls[i].file)
                = <<"c", "o", "n", "f", "i", "g", ".", "j", "s", "o", "n">>
         \/ EndsWith(calls[i].file, <<".", "y", "m", "l">>)
         \/ EndsWith(calls[i].file, <<".", "y", "a", "m", "l">>))
        => ~calls[i].ret /\ calls[i].after = calls[i].before

\* C3: a second call of clean_file on the same file with the same rule set
\* returns false and leaves the file as the first call left it.
C3_Idempotent ==
    Len(calls) >= 2 =>
        ~calls[2].ret /\ calls[2].after = calls[2].before

\* C4: the file is opened for writing only when the cleaned content differs
\* from the content read; when they are equal, and so when no rule matches
\* anything in the content, clean_file returns false, does not open the file
\* for writing and leaves its bytes as they were.
C4_NoOpDetection ==
    \A i \in 1..Len(calls) :
        LET c == calls[i]
            noMatch == \A k \in 1..Len(patterns) :
                ~HasMatch(c.content, patterns[k].pattern,
                          OptGet(patterns[k].options, "inplace", FALSE),
                          OptGet(patterns[k].options, "case_sensitive", TRUE))
        IN /\ c.wopen => c.content # c.cleaned
           /\ (~c.exc /\ noMatch) => c.content = c.cleaned
           /\ (~c.exc /\ c.content = c.cleaned) =>
                  ~c.ret /\ ~c.wopen /\ c.after = c.before

\* a call that read a content a rule matches, computed the same content
\* again, and did not open the file for writing
C4_Witness ==
    \E i \in 1..Len(calls) :
        /\ calls[i].content # <<>>
        /\ \E k \in 1..Len(patterns) :
               HasMatch(calls[i].content, patterns[k].pattern,
                        OptGet(patterns[k].options, "inplace", FALSE),
                        OptGet(patterns[k].options, "case_sensitive", TRUE))
        /\ calls[i].cleaned = calls[i].content
        /\ ~calls[i].exc /\ ~calls[i].ret /\ ~calls[i].wopen
        /\ calls[i].after = calls[i].before

\* C5 as stated: on a configuration error main prints a diagnostic and
\* returns a non-zero status, and the walker is never invoked.
C5_ConfigErrorReturns ==
    (pc = "done" /\ ConfigBroken) =>
        /\ result.kind = "returned"
        /\ result.code # 0
        /\ diag # "none"
        /\ calls = <<>>
        /\ disk = disk0

\* C5, amended: on a configuration error the walker is never invoked and no
\* file is read or modified; the process ends with a non-zero status and a
\* diagnostic: main prints a message and returns 1 when no path is given,
\* and raises (the interpreter prints the traceback) in the other cases.
C5_ConfigErrorIsFatal ==
    ConfigBroken =>
        /\ pc \in {"start", "done"}
        /\ all_files = <<>>
        /\ calls = <<>>
        /\ disk = disk0
        /\ pc = "done" =>
              /\ result.code # 0
              /\ ~args.json_config =>
                     result.kind = "returned" /\ diag = "message"
              /\ args.json_config =>
                     result.kind = "raised" /\ diag = "traceback"

\* a run that ended on a missing, invalid or incomplete configuration file
C5_Witness ==
    /\ pc = "done"
    /\ args.json_config
    /\ ConfigBroken
    /\ result = [kind |-> "raised", code |-> 1]
    /\ \E f \in Files : disk[f] = Hit

\* C6: a call of clean_file in which reading, decoding, transforming or
\* writing raised returns false, the file is not in the change list and its
\* bytes are those from before the run; and the run goes on to every other
\* candidate file.
C6_FaultIsolation ==
    /\ \A i \in 1..Len(calls) :
           calls[i].exc =>
               /\ ~calls[i].ret
               /\ \A k \in 1..Len(modified_files) :
                      modified_files[k] # calls[i].file
               /\ disk[calls[i].file] = disk0[calls[i].file]
    /\ (pc = "done" /\ ~ConfigBroken) =>
           \A k \in 1..Len(all_files) :
               exists[all_files[k]] => CallsOn(all_files[k]) # {}

\* C7: in enforce-all mode with include directories, every candidate file
\* and every file handed to clean_file has the absolute path of an include
\* directory as a prefix of its absolute path, and the other files keep
\* their bytes.
C7_OnlyIncluded ==
    LET underInclude(f) ==
            \E k \in 1..Len(include_dirs) :
                StartsWith(os_path_abspath(f), os_path_abspath(include_dirs[k]))
    IN (args.enforce_all /\ include_dirs # <<>> /\ pc \in {"loop", "done"}) =>
           /\ \A k \in 1..Len(all_files) : underInclude(all_files[k])
           /\ \A i \in 1..Len(calls) : underInclude(calls[i].file)
           /\ \A f \in Files : ~underInclude(f) => disk[f] = disk0[f]

\* a finished enforce-all run that rewrote a file under an include
\* directory and never called clean_file on a file outside them that a rule
\* matches
C7_Witness ==
    /\ pc = "done"
    /\ args.enforce_all
    /\ include_dirs # <<>>
    /\ \E i \in 1..Len(calls) : calls[i].ret
    /\ CallsOn(F_a) = {}
    /\ exists[F_a]
    /\ disk[F_a] = Hit

---------------------------------------------------------------------------
(* The two rules as the specification words them, for C9 and C10 *)

\* the last path segment of p: its longest suffix without a "/"
LastSegment(p) ==
    LET n == CHOOSE k \in 0..Len(p) :
                 /\ \A i \in (Len(p) - k + 1)..Len(p) : p[i] # "/"
                 /\ k = Len(p) \/ p[Len(p) - k] = "/"
    IN SubSeq(p, Len(p) - n + 1, Len(p))

\* the first index of tok at which pat starts, 0 when none
FirstAt(tok, pat, cs) ==
    LET S == {i \in 1..Len(tok) : LitAt(tok, i, pat, cs)}
    IN IF S = {} THEN 0 ELSE CHOOSE i \in S : \A j \in S : i <= j

\* One run of non-whitespace characters: from the first place the pattern
\* starts in it to its end is the path; the replacement directory joined
\* with the path's last segment takes its place.
InplaceToken(tok, pat, replacement, cs) ==
    LET i == FirstAt(tok, pat, cs)
    IN IF i = 0 THEN tok
       ELSE SubSeq(tok, 1, i - 1)
                \o os_path_join(replacement,
                                LastSegment(SubSeq(tok, i, Len(tok))))

\* the content, run of non-whitespace characters by run
RECURSIVE InplaceByToken(_, _, _, _, _)
InplaceByToken(s, i, pat, replacement, cs) ==
    IF i > Len(s) THEN <<>>
    ELSE IF IsSpace(s[i])
         THEN <<s[i]>> \o InplaceByToken(s, i + 1, pat, replacement, cs)
         ELSE LET e == NonSpaceEnd(s, i)
              IN InplaceToken(SubSeq(s, i, e - 1), pat, replacement, cs)
                     \o InplaceByToken(s, e, pat, replacement, cs)

\* the index after the run of blanks and tabs that starts at i
RECURSIVE SkipBlank(_, _)
SkipBlank(s, i) ==
    IF i <= Len(s) /\ s[i] \in {SP, "\t"} THEN SkipBlank(s, i + 1) ELSE i

\* One line: at the first key that blanks and "=" follow, the key stays and
\* " = replacement" takes the place of the rest of the line.
AssignLine(line, pat, replacement, cs) ==
    LET S == {i \in 1..Len(line) :
                 /\ LitAt(line, i, pat, cs)
                 /\ LET j == SkipBlank(line, i + Len(pat))
                    IN j <= Len(line) /\ line[j] = "="}
    IN IF S = {} THEN line
       ELSE LET i == CHOOSE x \in S : \A y \in S : x <= y
            IN SubSeq(line, 1, i + Len(pat) - 1)
                   \o <<SP, "=", SP>> \o replacement

\* the content, line by line
RECURSIVE AssignByLine(_, _, _, _, _)
AssignByLine(s, i, pat, replacement, cs) ==
    LET e == LineEnd(s, i)
        line == AssignLine(SubSeq(s, i, e - 1), pat, replacement, cs)
    IN IF e > Len(s) THEN line
       ELSE line \o <<NL>> \o AssignByLine(s, e + 1, pat, replacement, cs)

IsInplace(rule) == OptGet(rule.options, "inplace", FALSE)

\* the rule sets of one rule that has a replacement
SingleRule(inplace) ==
    /\ Len(patterns) = 1
    /\ IsInplace(patterns[1]) = inplace
    /\ "replacement" \in DOMAIN patterns[1].options

\* C9: with one assignment rule the cleaned content is the content with, in
\* each line, the key kept, " = replacement" in place of the rest of that
\* line, and everything else as it was.
C9_AssignmentByLine ==
    (SingleRule(FALSE) /\ Len(calls) >= 1) =>
        calls[1].cleaned =
            IF calls[1].content = <<>> THEN <<>>
            ELSE AssignByLine(calls[1].content, 1, patterns[1].pattern,
                              patterns[1].options.replacement,
                              OptGet(patterns[1].options, "case_sensitive", TRUE))

\* C10 as stated: with one inplace rule, every run of non-whitespace
\* characters from where the pattern starts is replaced by the replacement
\* directory joined with its last path segment.
C10_InplaceEveryPattern ==
    (SingleRule(TRUE) /\ Len(calls) >= 1) =>
        calls[1].cleaned =
            InplaceByToken(calls[1].content, 1, patterns[1].pattern,
                           patterns[1].options.replacement,
                           OptGet(patterns[1].options, "case_sensitive", TRUE))

\* C10, amended: the same for every pattern but the name "all"; and the
\* file holds the cleaned content when it differs from the content read.
C10_InplaceExceptAll ==
    (SingleRule(TRUE) /\ patterns[1].pattern # AllName /\ Len(calls) >= 1) =>
        /\ calls[1].cleaned =
               InplaceByToken(calls[1].content, 1, patterns[1].pattern,
                              patterns[1].options.replacement,
                              OptGet(patterns[1].options, "case_sensitive", TRUE))
        /\ calls[1].ret <=> calls[1].cleaned # calls[1].content
        /\ calls[1].ret => calls[1].after = calls[1].cleaned

\* "w=/k/o/a.l" with pattern "/k" and replacement "/n": the text before the
\* path and the filename stay, the directory is the replacement
C10_Witness ==
    /\ patterns = <<InplaceRule>>
    /\ Len(calls) >= 1
    /\ calls[1].content = <<"w", "=", "/", "k", "/", "o", "/", "a", ".", "l">>
    /\ calls[1].ret
    /\ disk[F_a] = <<"w", "=", "/", "n", "/", "a", ".", "l">>

====
